---- MODULE Spec2Model ----
(***************************************************************************)
(* Model of the delegate pallet (src/pallet/src/lib.rs): the Tree          *)
(* Registry (Trees), the Membership Ledger (Members), the reservable       *)
(* balances the pallet drives through T::Currency, and the five            *)
(* dispatchables create_root, delegate, revoke, add_members and            *)
(* remove_members with the helpers they call.                              *)
(*                                                                         *)
(* Option<X> is modelled as a sequence: None is <<>>, Some(x) is <<x>>.    *)
(* u32 fields (kids, size) are kept as the signed representative of their  *)
(* 32-bit value: 0 - 1 in a wrapping build is stored as -1, which stands   *)
(* for 2^32 - 1; comparisons go through U32Le.                             *)
(***************************************************************************)
EXTENDS Integers, Sequences, FiniteSets, Bags, TLC

(* ------------------------------ bounds -------------------------------- *)
NumAccounts == 3
MaxTrees == 4
MaxLen == 2
NumFunded == 2
InitBalance == 8
MaxWrap == 2
MaxCalls == 4
\* the balance type is an unsigned integer type the runtime chooses (u64 in
\* the tests); the model scales it down to BalanceBits bits
BalanceBits == 4

(* ------------------- runtime configuration (Trait) -------------------- *)
\* the values of T::Bond the runs are made with: one whose multiples and
\* powers stay within the balance type up to the largest group and the deepest
\* delegation, and one whose double and whose square leave it
Bonds == {2, 8}
MaxSize == 2
MaxDepth == 2
MaxKids == 1

Accounts == 1..NumAccounts
\* the ids of the model: the registry holds MaxTrees trees, ids 0..MaxTrees-1,
\* and id MaxTrees is the one gen_uid returns when those are taken
TreeIds == 0..MaxTrees
None == <<>>
Some(x) == <<x>>

RECURSIVE SeqsUpTo(_)
SeqsUpTo(n) ==
    IF n = 0 THEN {<<>>}
    ELSE LET shorter == SeqsUpTo(n - 1)
         IN shorter \cup {Append(s, a) : s \in {t \in shorter : Len(t) = n - 1}, a \in Accounts}
\* the member lists calls are made with: every list of up to MaxLen accounts,
\* and two longer ones, one of MaxSize + 1 distinct accounts and one that
\* repeats an account with another in between
LongLists == {[i \in 1..(MaxSize + 1) |-> i], <<2, 3, 2>>}
MemberLists == SeqsUpTo(MaxLen) \cup LongLists

VARIABLES
    TreeIdCounter,  \* storage value TreeIdCounter
    Trees,          \* storage map Trees: TreeId -> Option<TreeState>
    Members,        \* storage double map Members: TreeId, AccountId -> Option<Balance>
    free,           \* T::Currency free balance of every account
    reserved,       \* T::Currency reserved balance of every account
    checked,        \* the build: TRUE when overflow checks are on (arithmetic
                    \* out of range panics), FALSE when it wraps
    Bond,           \* the runtime's T::Bond
    delegated,      \* history: the delegation that created each tree
    last,           \* the call made last: its arguments, result and event
    ncalls          \* how many calls have returned Ok
vars == <<TreeIdCounter, Trees, Members, free, reserved, checked, Bond, delegated,
          last, ncalls>>

(* ------------------------------ helpers ------------------------------- *)
Min(S) == CHOOSE x \in S : \A y \in S : x <= y
Max2(a, b) == IF a >= b THEN a ELSE b
Min2(a, b) == IF a <= b THEN a ELSE b

\* unsigned a <= b on signed representatives of u32 values
U32Le(a, b) == IF (a < 0) = (b < 0) THEN a <= b ELSE b < 0
\* a - b on u32 leaves the range: panics with overflow checks, wraps without
U32SubUnderflows(a, b) == ~U32Le(b, a)
\* a + b on u32 leaves the range (b is a small non-negative amount)
U32AddOverflows(a, b) == a < 0 /\ a + b >= 0

\* the largest value of the balance type
MaxBalance == 2 ^ BalanceBits - 1
\* what a * b on balances that leaves the type stands for in a build with
\* overflow checks: the panic
BalPanic == 0 - 1
\* a * b on balances: out of range it panics with overflow checks and wraps
\* without
BalMul(a, b) ==
    IF a = BalPanic \/ b = BalPanic THEN BalPanic
    ELSE IF a * b <= MaxBalance THEN a * b
    ELSE IF checked THEN BalPanic
    ELSE (a * b) % (2 ^ BalanceBits)

\* Vec::dedup: removes consecutive repeated elements only
RECURSIVE dedup(_)
dedup(s) ==
    IF Len(s) <= 1 THEN s
    ELSE LET rest == dedup(Tail(s))
         IN IF Head(s) = Head(rest) THEN rest ELSE <<Head(s)>> \o rest

\* the storage and balances an operation works on
\* (calls, depth and panic trace the teardown: remove_mems invocations made,
\* deepest nesting reached, and whether the operation has panicked; events
\* are the events the operation has deposited)
Store == [T |-> Trees, M |-> Members, F |-> free, R |-> reserved,
          calls |-> 0, depth |-> 0, panic |-> FALSE, events |-> <<>>]

\* T::Currency::reserve: fails when the free balance does not cover the amount
CanReserve(st, who, amount) == st.F[who] >= amount
Reserve(st, who, amount) ==
    [st EXCEPT !.F[who] = @ - amount, !.R[who] = @ + amount]

\* T::Currency::unreserve: releases at most what is reserved
Unreserve(st, who, amount) ==
    LET actual == Min2(st.R[who], amount)
    IN [st EXCEPT !.F[who] = @ + actual, !.R[who] = @ - actual]

\* the stored counter is returned as it is (no scan)
scan_uid_no_scan(T, counter) == counter
\* gen_uid: scan forward from the stored counter to the first free id
RECURSIVE scan_uid(_, _)
scan_uid(T, counter) ==
    IF counter \in TreeIds /\ T[counter] # None
    THEN scan_uid(T, counter + 1)
    ELSE counter
gen_uid(T) == scan_uid(T, TreeIdCounter)

\* the closure power(n, exp) of reserve_exponential_bond: fold of a * b from 1
RECURSIVE power(_, _)
power(n, exp) == IF exp <= 0 THEN 1 ELSE BalMul(power(n, exp - 1), n)

\* the ledger entry is set to the bond, what it held is dropped
record_bond_overwrite(st, tree, account, bond) ==
    [st EXCEPT !.M[tree][account] = Some(bond)]
\* the ledger update shared by both bond reservations
record_bond(st, tree, account, bond) ==
    LET b == IF st.M[tree][account] # None
             THEN st.M[tree][account][1] + bond
             ELSE bond
    IN [st EXCEPT !.M[tree][account] = Some(b)]

reserve_linear_bond(st, tree, account, new_size) ==
    LET bond == BalMul(Bond, new_size)
    IN IF bond = BalPanic
       THEN [ok |-> FALSE, st |-> [st EXCEPT !.panic = TRUE], bond |-> bond]
       ELSE IF ~CanReserve(st, account, bond)
       THEN [ok |-> FALSE, st |-> st, bond |-> bond]
       ELSE [ok |-> TRUE,
             st |-> record_bond(Reserve(st, account, bond), tree, account, bond),
             bond |-> bond]

\* the ledger is written before the reservation is attempted
reserve_exponential_bond_record_first(st, tree, account, height, kids) ==
    LET bond == power(Bond, height + kids)
    IN IF bond = BalPanic
       THEN [ok |-> FALSE, st |-> [st EXCEPT !.panic = TRUE], bond |-> bond]
       ELSE IF ~CanReserve(st, account, bond)
       THEN [ok |-> FALSE, st |-> record_bond(st, tree, account, bond), bond |-> bond]
       ELSE [ok |-> TRUE,
             st |-> record_bond(Reserve(st, account, bond), tree, account, bond),
             bond |-> bond]

reserve_exponential_bond(st, tree, account, height, kids) ==
    LET exp == height + kids
        bond == power(Bond, exp)
    IN IF bond = BalPanic
       THEN [ok |-> FALSE, st |-> [st EXCEPT !.panic = TRUE], bond |-> bond]
       ELSE IF ~CanReserve(st, account, bond)
       THEN [ok |-> FALSE, st |-> st, bond |-> bond]
       ELSE [ok |-> TRUE,
             st |-> record_bond(Reserve(st, account, bond), tree, account, bond),
             bond |-> bond]

\* add_mems: the for_each over the deduplicated list, then the size update
RECURSIVE add_loop(_, _, _)
add_loop(acc, id, mems) ==
    IF mems = <<>> THEN acc
    ELSE LET m == Head(mems)
             nxt == IF acc.st.M[id][m] = None
                    THEN [st |-> [acc.st EXCEPT !.M[id][m] = Some(0)],
                          n |-> acc.n + 1]
                    ELSE acc
         IN add_loop(nxt, id, Tail(mems))

add_mems(st, tree, mems) ==
    LET done == add_loop([st |-> st, n |-> 0], tree.id, dedup(mems))
    IN [done.st EXCEPT !.T[tree.id] = Some([tree EXCEPT !.size = @ + done.n])]

\* the penalty branch does nothing: the bond is returned as without penalty
penalise_skipped(st) == st
\* the penalty branch: todo!() panics
penalise(st) == [st EXCEPT !.panic = TRUE]

\* every listed member may be removed (the owner too)
removable_any(tree, m) == TRUE
\* constraint: cannot remove the account who created the hierarchy
removable(tree, m) == tree.bonded # m

\* remove_mems, Some(mems) branch: the for_each over the deduplicated list
RECURSIVE remove_loop(_, _, _, _)
remove_loop(acc, tree, mems, penalty) ==
    IF mems = <<>> \/ acc.st.panic THEN acc
    ELSE LET m == Head(mems)
             entry == acc.st.M[tree.id][m]
             nxt == IF entry # None /\ removable(tree, m)
                    THEN LET s1 == Unreserve(acc.st, m, entry[1])
                             s2 == IF penalty THEN penalise(s1) ELSE s1
                         IN IF s2.panic
                            THEN [st |-> s2, n |-> acc.n]
                            ELSE [st |-> [s2 EXCEPT !.M[tree.id][m] = None],
                                  n |-> acc.n + 1]
                    ELSE acc
         IN remove_loop(nxt, tree, Tail(mems), penalty)

\* remove_mems, None branch: the for_each over Members::iter_prefix(tree.id)
RECURSIVE release_all(_, _, _, _)
release_all(st, id, who, penalty) ==
    IF who = {} \/ st.panic THEN st
    ELSE LET a == Min(who)
             s1 == Unreserve(st, a, st.M[id][a][1])
             s2 == IF penalty THEN penalise(s1) ELSE s1
             s3 == IF s2.panic THEN s2 ELSE [s2 EXCEPT !.M[id][a] = None]
         IN release_all(s3, id, who \ {a}, penalty)

\* remove_mems, None branch: decrement the parent's kids count
decrement_parent(st, tree) ==
    IF st.panic \/ tree.parent = None THEN st
    ELSE LET p == tree.parent[1]
         IN IF st.T[p] = None THEN st
            ELSE LET tp == st.T[p][1]
                 IN IF checked /\ U32SubUnderflows(tp.kids, 1)
                    THEN [st EXCEPT !.panic = TRUE]
                    ELSE [st EXCEPT !.T[p] = Some([tp EXCEPT !.kids = @ - 1])]

\* the registry entries Trees::iter() yields with child.parent == Some(id)
Children(T, id) == {c \in TreeIds : T[c] # None /\ T[c][1].parent = Some(id)}

RECURSIVE remove_mems(_, _, _, _, _)
RECURSIVE remove_children(_, _, _, _)
\* remove_mems(tree, mems, penalty), called at nesting level lvl
remove_mems(st, tree, mems, penalty, lvl) ==
    LET s0 == [st EXCEPT !.calls = @ + 1, !.depth = Max2(@, lvl)]
    IN IF st.panic THEN st
       ELSE IF mems # None
       THEN LET done == remove_loop([st |-> s0, n |-> 0], tree, dedup(mems[1]), penalty)
            IN IF done.st.panic THEN done.st
               ELSE IF checked /\ U32SubUnderflows(tree.size, done.n)
               THEN [done.st EXCEPT !.panic = TRUE]
               ELSE [done.st EXCEPT
                        !.T[tree.id] = Some([tree EXCEPT !.size = @ - done.n])]
       ELSE LET who == {a \in Accounts : s0.M[tree.id][a] # None}
                s1 == release_all(s0, tree.id, who, penalty)
                s2 == decrement_parent(s1, tree)
            IN remove_children(s2, Children(s2.T, tree.id), penalty, lvl)

\* the children are left alone (no recursion)
remove_children_skipped(st, kids, penalty, lvl) == st

\* the recursion into every child, one after the other
remove_children(st, kids, penalty, lvl) ==
    IF kids = {} \/ st.panic THEN st
    ELSE LET c == Min(kids)
         IN remove_children(remove_mems(st, st.T[c][1], None, penalty, lvl + 1),
                            kids \ {c}, penalty, lvl)

(* --------------------------- dispatchables ---------------------------- *)
\* what a call returns: the storage it leaves, Ok or the error, the event
Outcome(st, result, event) == [st |-> st, result |-> result, event |-> event]
Fail(error) == Outcome(Store, error, None)
\* the `?` on a failed reservation: the call returns with the storage as the
\* reservation left it
Abort(st, error) == Outcome(st, error, None)
Finish(st, event) ==
    IF st.panic THEN Fail("Panic")
    ELSE Outcome([st EXCEPT !.events = Append(@, event)], "Ok", Some(event))

create_root(caller) ==
    LET bond == Bond
    IN IF ~CanReserve(Store, caller, bond) THEN Fail("InsufficientBalance")
       ELSE LET s1 == Reserve(Store, caller, bond)
                id == gen_uid(s1.T)
                state == [id |-> id, parent |-> None, bonded |-> caller,
                          height |-> 0, kids |-> 0, size |-> 1]
                s2 == [s1 EXCEPT !.T[id] = Some(state),
                                 !.M[id][caller] = Some(bond)]
            IN Finish(s2, <<"RegisterIdRoot", id, caller, bond>>)

\* delegate: the height of the tree it creates (missing the + 1)
child_height_same(parent_st) == parent_st.height
\* delegate: the height of the tree it creates
child_height(parent_st) == parent_st.height + 1

\* delegate: the depth check (off by one)
depth_allows_strict(new_height) == new_height < MaxDepth
\* delegate: no depth check
depth_allows_any(new_height) == TRUE
\* delegate: check that delegating does not violate module depth constraints
depth_allows(new_height) == U32Le(new_height, MaxDepth)

\* delegate: check that delegating does not violate module kids constraints
kids_allow(new_kids) == U32Le(new_kids, MaxKids)

delegate(caller, parent, members) ==
    IF Members[parent][caller] = None THEN Fail("NotAuthorized")
    ELSE IF Trees[parent] = None THEN Fail("TreeDNE")
    ELSE LET parent_st == Trees[parent][1]
             new_kids == parent_st.kids + 1
             new_height == child_height(parent_st)
         IN IF checked /\ U32AddOverflows(parent_st.kids, 1) THEN Fail("Panic")
            ELSE IF ~kids_allow(new_kids) THEN Fail("CannotDelegateAboveMaxKids")
            ELSE IF ~depth_allows(new_height) THEN Fail("CannotDelegateBelowMaxDepth")
            ELSE LET res == reserve_exponential_bond(Store, parent, caller,
                                                     new_height, new_kids)
                     id == gen_uid(res.st.T)
                     state == [id |-> id, parent |-> Some(parent_st.id),
                               bonded |-> caller, height |-> new_height,
                               kids |-> 0, size |-> 0]
                     s1 == add_mems(res.st, state, members)
                     s2 == [s1 EXCEPT !.T[parent] =
                                Some([parent_st EXCEPT !.kids = new_kids])]
                 IN IF res.st.panic THEN Fail("Panic")
                    ELSE IF ~res.ok THEN Abort(res.st, "InsufficientBalance")
                    ELSE Finish(s2, <<"DelegateBranch", parent, id, caller, res.bond>>)

revoke(caller, branch, penalty) ==
    IF Trees[branch] = None THEN Fail("TreeDNE")
    ELSE LET tree == Trees[branch][1]
         IN IF tree.bonded # caller THEN Fail("NotAuthorized")
            ELSE Finish(remove_mems(Store, tree, None, penalty, 0),
                        <<"RevokeDelegation", branch>>)

\* auth that looks for the caller among the members of the tree itself
auth_own_tree(tree, caller) ==
    IF tree.parent # None
    THEN Members[tree.id][caller] # None
    ELSE tree.bonded = caller
\* auth requires member of direct parent || bonded caller
auth(tree, caller) ==
    IF tree.parent # None
    THEN Members[tree.parent[1]][caller] # None
    ELSE tree.bonded = caller

\* add_members: the size check (off by one)
size_allows_strict(new_size) == new_size < MaxSize
\* add_members: the check of the new size against MaxSize
size_allows(new_size) == U32Le(new_size, MaxSize)

add_members(caller, tree_id, members) ==
    IF Trees[tree_id] = None THEN Fail("TreeDNE")
    ELSE LET tree == Trees[tree_id][1]
             mems == dedup(members)
             new_size == Len(mems) + tree.size
         IN IF ~auth(tree, caller) THEN Fail("NotAuthorized")
            ELSE IF checked /\ U32AddOverflows(tree.size, Len(mems)) THEN Fail("Panic")
            ELSE IF ~size_allows(new_size) THEN Fail("CannotAddGroupAboveMaxSize")
            ELSE LET res == reserve_linear_bond(Store, tree_id, caller, new_size)
                 IN IF res.st.panic THEN Fail("Panic")
                    ELSE IF ~res.ok THEN Abort(res.st, "InsufficientBalance")
                    ELSE Finish(add_mems(res.st, tree, mems),
                                <<"AddedMembers", caller, tree_id, res.bond>>)

remove_members(caller, tree_id, members, penalty) ==
    IF Trees[tree_id] = None THEN Fail("TreeDNE")
    ELSE LET tree == Trees[tree_id][1]
         IN IF ~auth(tree, caller) THEN Fail("NotAuthorized")
            ELSE Finish(remove_mems(Store, tree, Some(members), penalty, 0),
                        <<"RemovedMembers", caller, tree_id>>)

(* ------------------------------ actions ------------------------------- *)
\* the tree ids calls are made with: every id in the registry and the first
\* free one (every id without an entry is treated alike by the code)
CallIds == 0..gen_uid(Trees)

\* the registry of the model holds MaxTrees ids and wrapped counters are
\* followed MaxWrap steps below zero
InBounds(out) ==
    out.result = "Ok" =>
        /\ out.st.T[MaxTrees] = None
        /\ \A id \in TreeIds : out.st.T[id] # None =>
               /\ out.st.T[id][1].kids >= -MaxWrap
               /\ out.st.T[id][1].size >= -MaxWrap

Exists(id) == Trees[id] # None
Tree(id) == Trees[id][1]
Registered == {id \in TreeIds : Exists(id)}

\* id is top or is reached from top by following parent links downwards
RECURSIVE IsUnder(_, _)
IsUnder(id, top) ==
    \/ id = top
    \/ /\ Exists(id)
       /\ Tree(id).parent # None
       /\ IsUnder(Tree(id).parent[1], top)
Subtree(top) == {id \in Registered : IsUnder(id, top)}

\* The delegations made so far, kept beside the storage: for every tree a
\* delegate created, who delegated, the bond of the DelegateBranch event, and
\* whether the tree is standing or a revoke that returned Ok has since gone
\* through it, without penalty ("torn down") or with ("forfeited").
Delegation(who, bond) == [who |-> who, bond |-> bond, state |-> "standing"]
Standing(D, id) == D[id] # None /\ D[id][1].state = "standing"
AfterCall(op, tree, penalty, out) ==
    IF out.result # "Ok" THEN delegated
    ELSE IF op = "delegate"
         THEN [delegated EXCEPT ![out.event[1][3]] =
                  Some(Delegation(out.event[1][4], out.event[1][5]))]
    ELSE IF op = "revoke"
         THEN [id \in TreeIds |->
                  IF Standing(delegated, id) /\ id \in Subtree(tree)
                  THEN Some([delegated[id][1] EXCEPT
                                !.state = IF penalty THEN "forfeited"
                                          ELSE "torn down"])
                  ELSE delegated[id]]
    ELSE delegated

\* A call leaves the storage as it stands when the call returns (Ok or Err);
\* a panic unwinds the call and the host drops what it wrote.
\* A run is up to MaxCalls calls that return Ok, followed here by their effect
\* on the storage alone, and then one more call, of any outcome, which `last`
\* records with its arguments, result and event: every call of every run of
\* up to MaxCalls + 1 calls is the recorded call of the run that ends with it.
NoCall == [op |-> "none", caller |-> 0, tree |-> 0, mems |-> <<>>, penalty |-> FALSE,
           result |-> "Ok", event |-> None, calls |-> 0, depth |-> 0]

Commit(op, caller, tree, mems, penalty, out) ==
    /\ InBounds(out)
    /\ Trees' = IF out.result = "Panic" THEN Trees ELSE out.st.T
    /\ Members' = IF out.result = "Panic" THEN Members ELSE out.st.M
    /\ free' = IF out.result = "Panic" THEN free ELSE out.st.F
    /\ reserved' = IF out.result = "Panic" THEN reserved ELSE out.st.R
    /\ delegated' = AfterCall(op, tree, penalty, out)
    /\ \/ /\ out.result = "Ok"
          /\ ncalls < MaxCalls
          /\ ncalls' = ncalls + 1
          /\ last' = last
       \/ /\ ncalls' = ncalls
          /\ last' = [op |-> op, caller |-> caller, tree |-> tree, mems |-> mems,
                      penalty |-> penalty, result |-> out.result,
                      event |-> out.event,
                      calls |-> out.st.calls, depth |-> out.st.depth]
    /\ UNCHANGED <<TreeIdCounter, checked, Bond>>

CreateRoot ==
    /\ last = NoCall
    /\ \E caller \in Accounts :
        Commit("create_root", caller, 0, <<>>, FALSE, create_root(caller))

Delegate ==
    /\ last = NoCall
    /\ \E caller \in Accounts, parent \in CallIds, members \in MemberLists :
        Commit("delegate", caller, parent, members, FALSE,
               delegate(caller, parent, members))

Revoke ==
    /\ last = NoCall
    /\ \E caller \in Accounts, branch \in CallIds, penalty \in BOOLEAN :
        Commit("revoke", caller, branch, <<>>, penalty,
               revoke(caller, branch, penalty))

AddMembers ==
    /\ last = NoCall
    /\ \E caller \in Accounts, tree_id \in CallIds, members \in MemberLists :
        Commit("add_members", caller, tree_id, members, FALSE,
               add_members(caller, tree_id, members))

RemoveMembers ==
    /\ last = NoCall
    /\ \E caller \in Accounts, tree_id \in CallIds, members \in MemberLists,
          penalty \in BOOLEAN :
        Commit("remove_members", caller, tree_id, members, penalty,
               remove_members(caller, tree_id, members, penalty))

Init ==
    /\ TreeIdCounter = 0
    /\ Trees = [id \in TreeIds |-> None]
    /\ Members = [id \in TreeIds |-> [a \in Accounts |-> None]]
    /\ free = [a \in Accounts |-> IF a <= NumFunded THEN InitBalance ELSE 0]
    /\ reserved = [a \in Accounts |-> 0]
    /\ delegated = [id \in TreeIds |-> None]
    /\ checked \in BOOLEAN
    /\ Bond \in Bonds
    /\ ncalls = 0
    /\ last = NoCall

Next == CreateRoot \/ Delegate \/ Revoke \/ AddMembers \/ RemoveMembers

Spec == Init /\ [][Next]_vars

(* ------------------------- notions of the claims ---------------------- *)
IsMember(id, a) == Members[id][a] # None
MembersOf(id) == {a \in Accounts : IsMember(id, a)}
Entry(M, id, a) == IF M[id][a] = None THEN 0 ELSE M[id][a][1]

RECURSIVE SumEntries(_, _, _)
SumEntries(M, ids, a) ==
    IF ids = {} THEN 0
    ELSE LET id == Min(ids) IN Entry(M, id, a) + SumEntries(M, ids \ {id}, a)


\* the states a call is made from: the recorded call has not been made yet
CanCall == last = NoCall
Range(s) == {s[i] : i \in DOMAIN s}
NoRepeats(s) == Cardinality(Range(s)) = Len(s)
SameStorage(st) ==
    st.T = Trees /\ st.M = Members /\ st.F = free /\ st.R = reserved

(* -------------------------------- C1 ---------------------------------- *)
\* C1: a revoke(caller, root, penalty = false) of a root tree that returns Ok
\* leaves no Membership entry for the root or for any tree under it, and
\* every account's reserved balance is lower by exactly the sum of the
\* entries the account held in those trees before the call.
C1_RevokeStep ==
    (/\ last'.op = "revoke"
     /\ last'.result = "Ok"
     /\ ~last'.penalty
     /\ Tree(last'.tree).parent = None)
    => /\ \A id \in Subtree(last'.tree) : \A a \in Accounts :
              Members'[id][a] = None
       /\ \A a \in Accounts :
              /\ reserved'[a] =
                    reserved[a] - SumEntries(Members, Subtree(last'.tree), a)
              /\ free'[a] =
                    free[a] + SumEntries(Members, Subtree(last'.tree), a)
C1_RevokeRootReleasesSubtree == [][C1_RevokeStep]_vars

\* a root with a chain of descendants down to MaxDepth has been revoked,
\* after calls that all reserved a bond, and nothing is reserved any more
C1_Witness ==
    /\ last.op = "revoke" /\ last.result = "Ok" /\ ~last.penalty
    /\ Tree(last.tree).parent = None
    /\ last.depth = MaxDepth
    /\ last.calls >= 3
    /\ ncalls >= 3
    /\ \A a \in Accounts : reserved[a] = 0
    /\ \A id \in Subtree(last.tree) : MembersOf(id) = {}

(* -------------------------------- C2 ---------------------------------- *)
\* C2: the remove_mems invocations one top-level revoke triggers (the
\* recursive ones, the call made by revoke itself not counted) number at
\* most MaxKids^MaxDepth.
C2_TeardownCallsWithinBound ==
    (last.op = "revoke" /\ last.result = "Ok")
    => last.calls - 1 <= MaxKids ^ MaxDepth

(* -------------------------------- C3 ---------------------------------- *)
\* C3: every tree in the registry has kids <= MaxKids (as u32 values).
C3_KidsWithinMaxKids ==
    \A id \in Registered : U32Le(Tree(id).kids, MaxKids)

(* -------------------------------- C4 ---------------------------------- *)
\* C4: every tree in the registry, root or delegated, has size <= MaxSize.
C4_SizeWithinMaxSize ==
    \A id \in Registered : U32Le(Tree(id).size, MaxSize)

(* -------------------------------- C5 ---------------------------------- *)
\* C5: a tree with parent = None has height 0; a tree with parent = Some(p)
\* has a registry entry for p and height = height(p) + 1; no tree has
\* height > MaxDepth.
C5_HeightFollowsParent ==
    \A id \in Registered :
        /\ Tree(id).parent = None => Tree(id).height = 0
        /\ Tree(id).parent # None =>
              /\ Exists(Tree(id).parent[1])
              /\ Tree(id).height = Tree(Tree(id).parent[1]).height + 1
        /\ Tree(id).height <= MaxDepth

\* a call has just been made in a registry with a chain root, child, ...,
\* down to a tree at height MaxDepth
C5_Witness ==
    /\ last.op # "none"
    /\ \E id \in Registered :
          /\ Tree(id).height = MaxDepth
          /\ Tree(id).parent # None
          /\ Tree(Tree(id).parent[1]).height = MaxDepth - 1

(* -------------------------------- C6 ---------------------------------- *)
\* C6: for every tree in the registry, size equals the number of accounts
\* that have a Membership entry for it.
C6_SizeCountsMembers ==
    \A id \in Registered : Tree(id).size = Cardinality(MembersOf(id))

(* -------------------------------- C7 ---------------------------------- *)
\* C7: for every tree t in the registry, t.kids equals the number of
\* registry entries whose parent is t.
C7_KidsCountsChildren ==
    \A id \in Registered : Tree(id).kids = Cardinality(Children(Trees, id))

(* -------------------------------- C8 ---------------------------------- *)
\* C8: for a caller that is a member of the parent: delegate on a parent at
\* height MaxDepth - 1 with kids < MaxKids and a free balance that covers
\* the bond returns Ok; delegate on a parent at height MaxDepth returns
\* CannotDelegateBelowMaxDepth and leaves the registry, the ledger and all
\* free and reserved balances as they were.
C8_DelegateAtDepthLimit ==
    CanCall =>
    \A caller \in Accounts, parent \in Registered, members \in MemberLists :
        IsMember(parent, caller) =>
            LET out == delegate(caller, parent, members)
                p == Tree(parent)
            IN /\ (/\ p.height = MaxDepth - 1
                   /\ p.kids >= 0 /\ p.kids < MaxKids
                   /\ free[caller] >= Bond ^ (p.height + p.kids + 2))
                  => out.result = "Ok"
               /\ p.height = MaxDepth
                  => /\ out.result = "CannotDelegateBelowMaxDepth"
                     /\ SameStorage(out.st)

\* a member of a tree at height MaxDepth (a tree a delegate at height
\* MaxDepth - 1 created) has called delegate on it and was refused
C8_Witness ==
    /\ last.op = "delegate"
    /\ last.result = "CannotDelegateBelowMaxDepth"
    /\ Exists(last.tree)
    /\ Tree(last.tree).height = MaxDepth
    /\ Tree(Tree(last.tree).parent[1]).height = MaxDepth - 1
    /\ IsMember(last.tree, last.caller)

C10_PresentMembersNotCounted ==
    CanCall =>
    \A caller \in Accounts, tree_id \in Registered, members \in MemberLists :
        (/\ auth(Tree(tree_id), caller)
         /\ Tree(tree_id).size = Cardinality(MembersOf(tree_id))
         /\ Cardinality(MembersOf(tree_id) \cup Range(members)) <= MaxSize
         /\ free[caller] >= Bond * (Tree(tree_id).size + Len(members)))
        => add_members(caller, tree_id, members).result = "Ok"

(* -------------------------------- C11 --------------------------------- *)
\* C11: a delegate that returns Ok leaves, in the caller's Membership entry
\* for the child tree it created, the bond it reserved (the amount of its
\* DelegateBranch event) added to what the caller had there before.
C11_BondRecordedInChildEntry ==
    CanCall =>
    \A caller \in Accounts, parent \in CallIds, members \in MemberLists :
            LET out == delegate(caller, parent, members)
            IN out.result = "Ok" =>
                  LET child == out.event[1][3]
                      bond == out.event[1][5]
                  IN out.st.M[child][caller] =
                        Some(Entry(Members, child, caller) + bond)

(* -------------------------------- C12 --------------------------------- *)
\* C12: a delegate that returns Ok reserves exactly
\* Bond^(new_height + new_kids) from the caller, with new_height =
\* parent.height + 1 and new_kids = parent.kids + 1: the caller's free balance
\* is lower and the reserved balance higher by that amount, no other account's
\* balance changes, and the DelegateBranch event carries that amount.
C12_DelegateReservesExactBond ==
    CanCall =>
    \A caller \in Accounts, parent \in CallIds, members \in MemberLists :
            LET out == delegate(caller, parent, members)
            IN out.result = "Ok" =>
                  LET p == Tree(parent)
                      amount == Bond ^ ((p.height + 1) + (p.kids + 1))
                  IN /\ out.st.F[caller] = free[caller] - amount
                     /\ out.st.R[caller] = reserved[caller] + amount
                     /\ \A a \in Accounts \ {caller} :
                            /\ out.st.F[a] = free[a]
                            /\ out.st.R[a] = reserved[a]
                     /\ out.event[1][5] = amount

(* -------------------------------- C13 --------------------------------- *)
\* C13: an add_members that returns Ok reserves exactly Bond * new_size from
\* the caller, new_size being the tree's size before the call plus the length
\* of the deduplicated list, and adds it to the caller's own Membership entry
\* for the tree; no other account's free or reserved balance changes and
\* every member the call inserts has an entry of zero.
C13_AddMembersReservesLinearBond ==
    CanCall =>
    \A caller \in Accounts, tree_id \in CallIds, members \in MemberLists :
            LET out == add_members(caller, tree_id, members)
            IN out.result = "Ok" =>
                  LET new_size == Tree(tree_id).size + Len(dedup(members))
                      amount == Bond * new_size
                  IN /\ out.st.F[caller] = free[caller] - amount
                     /\ out.st.R[caller] = reserved[caller] + amount
                     /\ out.st.M[tree_id][caller] =
                            Some(Entry(Members, tree_id, caller) + amount)
                     /\ \A a \in Accounts \ {caller} :
                            /\ out.st.F[a] = free[a]
                            /\ out.st.R[a] = reserved[a]
                            /\ (a \in Range(members) /\ Members[tree_id][a] = None)
                               => out.st.M[tree_id][a] = Some(0)

(* -------------------------------- C14 --------------------------------- *)
\* C14: when Bond^(new_height + new_kids) exceeds the largest value of the
\* balance type, delegate does not return Ok: it fails, and the registry, the
\* ledger and every free and reserved balance are as before the call.
C14_BondOverflowIsAnError ==
    CanCall =>
    \A caller \in Accounts, parent \in Registered, members \in MemberLists :
        (/\ Tree(parent).kids + 1 >= 0
         /\ Bond ^ ((Tree(parent).height + 1) + (Tree(parent).kids + 1)) > MaxBalance)
        => LET out == delegate(caller, parent, members)
           IN /\ out.result # "Ok"
              /\ SameStorage(out.st)

(* -------------------------------- C15 --------------------------------- *)
\* C15: on a tree in the registry, add_members and remove_members return Ok
\* only for the bonded owner when the tree is a root, and only for an account
\* with a Membership entry in the tree's parent when it is not; revoke
\* returns Ok only for the bonded owner; every other caller gets
\* NotAuthorized.
C15_MayManage(id, caller) ==
    IF Tree(id).parent = None
    THEN Tree(id).bonded = caller
    ELSE IsMember(Tree(id).parent[1], caller)
C15_OnlyAuthorizedCallsSucceed ==
    CanCall =>
    \A caller \in Accounts, id \in Registered, members \in MemberLists,
       penalty \in BOOLEAN :
            LET added == add_members(caller, id, members).result
                removed == remove_members(caller, id, members, penalty).result
                revoked == revoke(caller, id, penalty).result
            IN /\ added = "Ok" => C15_MayManage(id, caller)
               /\ removed = "Ok" => C15_MayManage(id, caller)
               /\ revoked = "Ok" => Tree(id).bonded = caller
               /\ ~C15_MayManage(id, caller)
                  => added = "NotAuthorized" /\ removed = "NotAuthorized"
               /\ Tree(id).bonded # caller => revoked = "NotAuthorized"

\* a member of a delegated tree that is neither its owner nor a member of its
\* parent has called add_members or remove_members on it and was refused
C15_Witness ==
    /\ last.op \in {"add_members", "remove_members"}
    /\ last.result = "NotAuthorized"
    /\ Exists(last.tree)
    /\ Tree(last.tree).parent # None
    /\ IsMember(last.tree, last.caller)
    /\ ~IsMember(Tree(last.tree).parent[1], last.caller)
    /\ last.mems # <<>>

(* -------------------------------- C16 --------------------------------- *)
\* C16: for every remove_members call, whatever the caller, the list and the
\* penalty flag: when the tree's bonded owner has a Membership entry for the
\* tree before the call, the owner has the same entry with the same amount
\* after it, and the owner's reserved balance is unchanged.
C16_OwnerSurvivesRemoveMembers ==
    CanCall =>
    \A caller \in Accounts, id \in Registered, members \in MemberLists,
       penalty \in BOOLEAN :
        IsMember(id, Tree(id).bonded) =>
            LET out == remove_members(caller, id, members, penalty)
                owner == Tree(id).bonded
            IN /\ out.st.M[id][owner] = Members[id][owner]
               /\ out.st.R[owner] = reserved[owner]
               /\ out.st.F[owner] = free[owner]

\* a remove_members call whose list names the owner and another account has
\* returned Ok: the other account has no entry, the owner has the bond
C16_Witness ==
    /\ last.op = "remove_members"
    /\ last.result = "Ok"
    /\ Tree(last.tree).bonded \in Range(last.mems)
    /\ \E a \in Range(last.mems) :
          a # Tree(last.tree).bonded /\ ~IsMember(last.tree, a)
    /\ IsMember(last.tree, Tree(last.tree).bonded)
    /\ Entry(Members, last.tree, Tree(last.tree).bonded) >= Bond
    /\ reserved[Tree(last.tree).bonded] >= Bond

(* -------------------------------- C17 --------------------------------- *)
\* the listed accounts a remove_members call is to remove: those with a
\* Membership entry for the tree that are not its bonded owner
C17_Removed(id, members) ==
    {a \in Range(members) : IsMember(id, a) /\ a # Tree(id).bonded}
\* C17: a remove_members(penalty = false) that returns Ok removes the entry of
\* each such account and lowers its reserved balance by exactly the entry's
\* amount, lowers the tree's size by exactly the number of such accounts, and
\* leaves every other Membership entry, every other tree, the tree's other
\* fields and every other account's balances unchanged.
C17_RemoveMembersFrame ==
    CanCall =>
    \A caller \in Accounts, id \in Registered, members \in MemberLists :
        LET out == remove_members(caller, id, members, FALSE)
            gone == C17_Removed(id, members)
        IN out.result = "Ok" =>
            /\ \A a \in gone :
                  /\ out.st.M[id][a] = None
                  /\ out.st.R[a] = reserved[a] - Entry(Members, id, a)
                  /\ out.st.F[a] = free[a] + Entry(Members, id, a)
            /\ U32Le(Cardinality(gone), Tree(id).size)
            /\ out.st.T[id] =
                  Some([Tree(id) EXCEPT !.size = @ - Cardinality(gone)])
            /\ \A a \in Accounts \ gone :
                  /\ out.st.M[id][a] = Members[id][a]
                  /\ out.st.R[a] = reserved[a]
                  /\ out.st.F[a] = free[a]
            /\ \A other \in TreeIds \ {id} :
                  /\ out.st.T[other] = Trees[other]
                  /\ out.st.M[other] = Members[other]

(* -------------------------------- C18 --------------------------------- *)
\* the list without the account m
C18_Without(members, m) == SelectSeq(members, LAMBDA x : x # m)
\* C18: listing an account that has a Membership entry for the tree already
\* is a no-op for the size and for that member: an add_members that returns
\* Ok leaves the size, that member's entry and that member's free and
\* reserved balances as the same call without that account in the list
\* leaves them (when that returns Ok too); a call that lists only accounts
\* with an entry leaves the size as it was.
C18_RelistingIsNoOp ==
    CanCall =>
    \A caller \in Accounts, id \in Registered, members \in MemberLists :
        \A m \in Range(members) \cap MembersOf(id) :
            LET listed == add_members(caller, id, members)
                unlisted == add_members(caller, id, C18_Without(members, m))
            IN listed.result = "Ok" =>
                /\ Range(members) \subseteq MembersOf(id) =>
                      listed.st.T[id][1].size = Tree(id).size
                /\ unlisted.result = "Ok" =>
                      /\ listed.st.T[id][1].size = unlisted.st.T[id][1].size
                      /\ listed.st.M[id][m] = unlisted.st.M[id][m]
                      /\ listed.st.F[m] = unlisted.st.F[m]
                      /\ listed.st.R[m] = unlisted.st.R[m]

(* -------------------------------- C19 --------------------------------- *)
\* C19: delegate called with a parent id that has no entry in the registry
\* returns TreeDNE, for every caller and member list.
C19_DelegateOnMissingParent ==
    CanCall =>
    \A caller \in Accounts, parent \in TreeIds, members \in MemberLists :
        ~Exists(parent) => delegate(caller, parent, members).result = "TreeDNE"

(* -------------------------------- C20 --------------------------------- *)
C20_Errors ==
    {"TreeDNE", "NotAuthorized", "CannotAddGroupAboveMaxSize",
     "CannotDelegateAboveMaxKids", "CannotDelegateBelowMaxDepth",
     "InsufficientBalance"}
\* what an error return must look like: registry, ledger and balances as
\* before the call, no event deposited
C20_Untouched(out) ==
    out.result \in C20_Errors =>
        /\ SameStorage(out.st)
        /\ out.st.events = <<>>
        /\ out.event = None
\* C20: every call of the five dispatchables that returns one of the errors
\* leaves the registry, the ledger, every free and reserved balance and the
\* events as they were before the call.
C20_ErrorsChangeNothing ==
    CanCall =>
    \A caller \in Accounts :
        /\ C20_Untouched(create_root(caller))
        /\ \A id \in CallIds, members \in MemberLists :
              /\ C20_Untouched(delegate(caller, id, members))
              /\ C20_Untouched(add_members(caller, id, members))
              /\ \A penalty \in BOOLEAN :
                    /\ C20_Untouched(revoke(caller, id, penalty))
                    /\ C20_Untouched(remove_members(caller, id, members, penalty))

\* after calls that wrote to the registry and reserved bonds, a member with
\* some free balance left has called delegate and the reservation failed
C20_Witness ==
    /\ last.op = "delegate"
    /\ last.result = "InsufficientBalance"
    /\ ncalls >= 2
    /\ free[last.caller] > 0
    /\ reserved[last.caller] > 0
    /\ IsMember(last.tree, last.caller)

(* -------------------------------- C21 --------------------------------- *)
\* the id a successful creation was given, from its event
C21_NewId(out) == IF out.event[1][1] = "RegisterIdRoot" THEN out.event[1][2]
                  ELSE out.event[1][3]
\* a creation that returns Ok got the smallest id without a registry entry,
\* which is the number of creations before it, stored the tree under it and
\* took no id that was given before
C21_Fresh(out) ==
    out.result = "Ok" =>
        LET id == C21_NewId(out)
        IN /\ ~Exists(id)
           /\ \A smaller \in 0..(id - 1) : Exists(smaller)
           /\ id = Cardinality(Registered)
           /\ out.st.T[id] # None /\ out.st.T[id][1].id = id
           /\ \A other \in Registered :
                  out.st.T[other] # None /\ out.st.T[other][1].id = other
\* C21: every create_root or delegate that returns Ok is given the smallest
\* id that has no registry entry, no id is given twice (the registry keeps
\* every tree under its own id, also after revokes), and the k-th creation
\* gets id k - 1.
C21_SmallestFreeIdNeverReused ==
    /\ \A id \in Registered :
          Tree(id).id = id /\ id < Cardinality(Registered)
    /\ CanCall =>
          \A caller \in Accounts :
              /\ C21_Fresh(create_root(caller))
              /\ \A parent \in CallIds, members \in MemberLists :
                    C21_Fresh(delegate(caller, parent, members))

\* a tree has been created as the third or a later one, after the revoke of
\* a root (which has no member left)
C21_Witness ==
    /\ last.op \in {"create_root", "delegate"}
    /\ last.result = "Ok"
    /\ C21_NewId(last) >= 2
    /\ Exists(C21_NewId(last))
    /\ \E r \in Registered : Tree(r).parent = None /\ MembersOf(r) = {}

(* -------------------------------- C22 --------------------------------- *)
\* the call has returned Ok and some account's free balance is higher
C22_ReturnedABond(out) ==
    /\ out.result = "Ok"
    /\ \E a \in Accounts : out.st.F[a] > free[a]
\* C22: no remove_members or revoke call with penalty = true returns Ok
\* having returned a bond to a member's free balance.
C22_PenaltyNeverReturnsBond ==
    CanCall =>
    \A caller \in Accounts, id \in CallIds :
        /\ ~C22_ReturnedABond(revoke(caller, id, TRUE))
        /\ \A members \in MemberLists :
              ~C22_ReturnedABond(remove_members(caller, id, members, TRUE))

\* the owner of a tree in which an account holds a bond has called revoke
\* with penalty = true: the call panicked and the bond is still reserved
C22_Witness ==
    /\ last.op = "revoke"
    /\ last.penalty
    /\ last.result = "Panic"
    /\ \E a \in Accounts :
          Entry(Members, last.tree, a) > 0 /\ reserved[a] > 0

(* -------------------------------- C23 --------------------------------- *)
\* C23: every revoke ends, and the remove_mems calls it makes are nested at
\* most MaxDepth deep (at most MaxDepth less the height of the revoked tree).
C23_TeardownNestingWithinMaxDepth ==
    CanCall =>
    \A caller \in Accounts, branch \in Registered, penalty \in BOOLEAN :
        LET out == revoke(caller, branch, penalty)
        IN /\ out.result \in {"Ok", "NotAuthorized", "Panic"}
           /\ out.st.depth <= MaxDepth - Tree(branch).height

\* the revoke of a root has gone down to a tree at height MaxDepth
C23_Witness ==
    /\ last.op = "revoke"
    /\ last.result = "Ok"
    /\ last.depth = MaxDepth
    /\ Tree(last.tree).height = 0
    /\ \E id \in Subtree(last.tree) : Tree(id).height = MaxDepth

(* -------------------------------- C24 --------------------------------- *)
\* C24: the result of add_members and the bond it reserves depend only on the
\* set of accounts listed: two lists of the same accounts, in any order and
\* with any repeats ([2, 3, 2] and [2, 3]), give the same result and event.
C24_AddMembersDependsOnSetOnly ==
    CanCall =>
    \A caller \in Accounts, id \in Registered :
        \A m1 \in MemberLists, m2 \in MemberLists :
            Range(m1) = Range(m2) =>
                LET out1 == add_members(caller, id, m1)
                    out2 == add_members(caller, id, m2)
                IN /\ out1.result = out2.result
                   /\ out1.event = out2.event

(* -------------------------------- C25 --------------------------------- *)
\* what the account was given at genesis
C25_InitialBalance(a) == IF a <= NumFunded THEN InitBalance ELSE 0
\* the sum of the account's Membership entries over all trees (the size of
\* the bag that holds each tree as often as the entry's amount)
C25_Recorded(a) ==
    BagCardinality([id \in {t \in TreeIds : Entry(Members, t, a) > 0} |->
                       Members[id][a][1]])
\* C25: in every state reached, every account's reserved balance equals the
\* sum of its Membership entries over all trees, and its free and reserved
\* balances add up to its initial balance.
C25_BondsConserved ==
    \A a \in Accounts :
        /\ free[a] + reserved[a] = C25_InitialBalance(a)
        /\ reserved[a] = C25_Recorded(a)

\* after calls that reserved bonds, a remove_members has released the bond an
\* account other than the caller held, while the caller's is still reserved
C25_Witness ==
    /\ last.op = "remove_members"
    /\ last.result = "Ok"
    /\ ~last.penalty
    /\ ncalls >= 3
    /\ reserved[last.caller] > 0
    /\ \E a \in Range(last.mems) \ {last.caller} :
          /\ ~IsMember(last.tree, a)
          /\ free[a] = C25_InitialBalance(a)
          /\ C25_InitialBalance(a) > 0
          /\ \E id \in Registered : Tree(id).bonded = a

(* -------------------------------- C26 --------------------------------- *)
\* C26: no revoke makes remove_mems compute tp.kids - 1 on a parent with
\* kids = 0: a revoke with penalty = false does not panic, and no tree whose
\* kids count is in range before it has a wrapped kids count after it.
C26_KidsDecrementNeverUnderflows ==
    CanCall =>
    \A caller \in Accounts, branch \in Registered :
        LET out == revoke(caller, branch, FALSE)
        IN /\ out.result # "Panic"
           /\ \A id \in Registered :
                  Tree(id).kids >= 0 => out.st.T[id][1].kids >= 0

(* -------------------------------- C27 --------------------------------- *)
\* C27: for every authorized remove_members call, the entries it removes are
\* at most as many as the tree's stored size: the call does not panic on
\* tree.size -= size_decrease and does not leave a wrapped size.
C27_SizeDecrementNeverUnderflows ==
    CanCall =>
    \A caller \in Accounts, id \in Registered, members \in MemberLists :
        LET out == remove_members(caller, id, members, FALSE)
        IN auth(Tree(id), caller) =>
              /\ out.result = "Ok"
              /\ U32Le(Cardinality(C17_Removed(id, members)), Tree(id).size)
              /\ Tree(id).size >= 0 => out.st.T[id][1].size >= 0

(* -------------------------------- C28 --------------------------------- *)
\* the delegation bonds of the trees in ids that the account delegated (the
\* size of the bag that holds each tree as often as its bond)
C28_Bonds(D, ids, a) ==
    BagCardinality([id \in {t \in ids : D[t][1].who = a /\ D[t][1].bond > 0} |->
                       D[id][1].bond])
\* the trees the step tears down without penalty
C28_TornDown ==
    {id \in TreeIds : Standing(delegated, id) /\ delegated'[id][1].state = "torn down"}
C28_Step ==
    \A a \in Accounts :
        /\ reserved'[a] >=
               C28_Bonds(delegated', {id \in TreeIds : Standing(delegated', id)}, a)
        /\ LET released == C28_Bonds(delegated, C28_TornDown, a)
           IN released > 0 => free'[a] >= free[a] + released
\* C28: the bond of a delegate call is released exactly when the child the
\* call created is torn down by a revoke of it or of an ancestor: after every
\* step the bonds of an account's standing delegations are still part of its
\* reserved balance, and a step that tears delegated trees down without
\* penalty adds their bonds to the delegator's free balance.
C28_DelegateBondReleasedAtTeardown == [][C28_Step]_vars

====
